---- MODULE Spec2Model ----
(***************************************************************************)
(* Model of the homekeep scheduling engine: the recurrence calculator,     *)
(* batch generator and urgency predicates of src/lib/scheduling.ts, the    *)
(* daily-budget allocator, progress summary and pending-map loader of      *)
(* src/screens/HomeScreen.tsx, and the occurrence lifecycle driven by      *)
(* handleMarkDone and the calendar's handleToggleStatus.                   *)
(*                                                                         *)
(* A JavaScript Date is modelled by its local wall-clock value, an integer *)
(* number of hours since 1970-01-01T00:00 local time (a day is always 24   *)
(* hours: daylight-saving shifts are not modelled).  Months are 0..11 and  *)
(* weekdays 0..6 with 0 = Sunday, as in the Date API.                      *)
(***************************************************************************)
EXTENDS Integers, Sequences, FiniteSets, TLC

VARIABLES
    \* calculateNextDueDate harness (src/lib/scheduling.ts)
    frequency,          \* argument frequency
    afterDate,          \* argument afterDate, a Date
    preferredWeekday,   \* argument preferredWeekday
    nextDueDate,        \* returned Date, Undefined before the call
    \* calculateNextOccurrences harness (src/lib/scheduling.ts)
    startDate,          \* argument startDate, a Date
    endDate,            \* const endDate
    current,            \* let current, the cursor of the while loop
    dates,              \* const dates
    \* getTaskUrgencyTier harness (src/lib/scheduling.ts)
    tierFrequency,      \* argument frequency
    dueDate,            \* argument dueDate: a day number (the YYYY-MM-DD string) or Null
    now,                \* the wall clock read by getDaysUntilDue, a Date
    tzOffset,           \* local time minus UTC, in hours
    tier,               \* returned tier, NoTier before the call
    urgent,             \* <<result>> of isTaskUrgent, NotCalled before the call
    \* HomeScreen component state (src/screens/HomeScreen.tsx)
    tasks,              \* useState tasks: sequence of UserTask records
    completedTaskIds,   \* useState completedTaskIds: set of task ids
    pendingTaskMap,     \* useState pendingTaskMap: task id -> due day or Null
    userProfile,        \* useAuth().userProfile: budget_enabled, daily_time_budget, or NoProfile
    \* locals of one getBudgetedTasks() evaluation
    pc,                 \* "idle" | "walk" | "done": position in the function under evaluation
    sorted,             \* const sorted
    budgeted,           \* const budgeted
    overflow,           \* const overflow
    currentTime,        \* let currentTime
    overdueCount,       \* let overdueCount
    overdueInOverflow,  \* let overdueInOverflow
    visited,            \* number of elements of sorted the for-loop has consumed
    \* the task_events table and the screens' completion handlers
    taskEvents,         \* rows of task_events in insertion order; a row's id is its position
    calendarTasks,      \* CalendarScreen useState tasks: event id -> status as loaded or patched
    mountedRows,        \* ids of the tasks whose home-screen row was mounted by the last render
    calls,              \* invocations of handleMarkDone / handleToggleStatus, one frame each
    progress            \* getDailyProgress() as evaluated by the last render

occurrenceVars == <<startDate, endDate, current, dates>>
recurrenceVars == <<frequency, afterDate, preferredWeekday, nextDueDate, occurrenceVars>>
tierVars == <<tierFrequency, dueDate, now, tzOffset, tier, urgent>>
screenVars == <<tasks, completedTaskIds, pendingTaskMap, userProfile>>
walkVars == <<pc, sorted, budgeted, overflow, currentTime, overdueCount,
              overdueInOverflow, visited>>
lifecycleVars == <<taskEvents, calendarTasks, mountedRows, calls, progress>>
vars == <<recurrenceVars, tierVars, screenVars, walkVars, lifecycleVars>>

\* the JavaScript values null and undefined where a number may stand
Null == -1
Undefined == -2

\* a tier variable that has not been assigned
NoTier == "undefined"
NotCalled == <<>>

\* useAuth() has no profile row: every field reads as undefined
NoProfile == <<>>

(***************************************************************************)
(* Bounds of the explored input space.                                     *)
(***************************************************************************)
FirstYear == 2023
LastYear == 2024
MaxTasks == 3
MaxDaysBehind == 3
MaxDaysAhead == 17

(***************************************************************************)
(* The Date API.                                                           *)
(***************************************************************************)
HoursPerDay == 24

IsLeapYear(y) == (y % 4 = 0 /\ y % 100 # 0) \/ y % 400 = 0

\* number of leap years in 1..y
LeapsThrough(y) == (y \div 4) - (y \div 100) + (y \div 400)

\* days from 1970-01-01 to y-01-01
DaysBeforeYear(y) == 365 * (y - 1970) + LeapsThrough(y - 1) - LeapsThrough(1969)

CumulativeDays == <<0, 31, 59, 90, 120, 151, 181, 212, 243, 273, 304, 334, 365>>

\* days from y-01-01 to the first of month m (0..12) of year y
DaysBeforeMonth(y, m) ==
    CumulativeDays[m + 1] + (IF m >= 2 /\ IsLeapYear(y) THEN 1 ELSE 0)

\* day number of new Date(y, m, d): month and day overflow roll over
MakeDay(y, m, d) ==
    LET yy == y + (m \div 12)
        mm == m % 12
    IN  DaysBeforeYear(yy) + DaysBeforeMonth(yy, mm) + d - 1

\* new Date(year, monthIndex, day): local midnight
NewDate(y, m, d) == MakeDay(y, m, d) * HoursPerDay

DayNumber(t) == t \div HoursPerDay

TimeOfDay(t) == t % HoursPerDay

RECURSIVE YearFrom(_, _)
YearFrom(y, n) == IF DaysBeforeYear(y + 1) <= n THEN YearFrom(y + 1, n) ELSE y

GetFullYear(t) == YearFrom(1970 + (DayNumber(t) \div 366), DayNumber(t))

RECURSIVE MonthFrom(_, _, _)
MonthFrom(m, y, n) ==
    IF DaysBeforeYear(y) + DaysBeforeMonth(y, m + 1) <= n
    THEN MonthFrom(m + 1, y, n) ELSE m

GetMonth(t) == MonthFrom(0, GetFullYear(t), DayNumber(t))

GetDate(t) == DayNumber(t) - MakeDay(GetFullYear(t), GetMonth(t), 1) + 1

\* 1970-01-01 was a Thursday
GetDay(t) == (DayNumber(t) + 4) % 7

\* variant: the time of day is kept
SetHours0_KeepsTime(t) == t

SetHours0(t) == DayNumber(t) * HoursPerDay

\* variant: a day past the end of the month stops at the month's last day
SetDate_Clamped(t, d) ==
    LET first == MakeDay(GetFullYear(t), GetMonth(t), 1)
        last == MakeDay(GetFullYear(t), GetMonth(t) + 1, 1) - first
    IN  (first + (IF d > last THEN last ELSE d) - 1) * HoursPerDay + TimeOfDay(t)

SetDate(t, d) == MakeDay(GetFullYear(t), GetMonth(t), d) * HoursPerDay + TimeOfDay(t)

SetMonth(t, m) == MakeDay(GetFullYear(t), m, GetDate(t)) * HoursPerDay + TimeOfDay(t)

SetFullYear(t, y) == MakeDay(y, GetMonth(t), GetDate(t)) * HoursPerDay + TimeOfDay(t)

(***************************************************************************)
(* Recurrence calculator.                                                  *)
(***************************************************************************)
RecognizedFrequencies ==
    {"daily", "weekly", "biweekly", "monthly", "semi_monthly", "quarterly",
     "seasonal_spring", "seasonal_summer", "seasonal_fall", "seasonal_winter",
     "semi_annual", "annual"}

SeasonalFrequencies ==
    {"seasonal_spring", "seasonal_summer", "seasonal_fall", "seasonal_winter"}

\* a value of the column that is none of the twelve
UnrecognizedFrequency == "fortnightly"

Frequencies == RecognizedFrequencies \cup {UnrecognizedFrequency}

\* variant: the fall date is September 21
getSeasonStartDate_FallShifted(season, year) ==
    CASE season = "seasonal_spring" -> NewDate(year, 2, 20)
      [] season = "seasonal_summer" -> NewDate(year, 5, 21)
      [] season = "seasonal_fall"   -> NewDate(year, 8, 21)
      [] season = "seasonal_winter" -> NewDate(year, 11, 21)
      [] OTHER -> NewDate(year, 0, 1)

getSeasonStartDate(season, year) ==
    CASE season = "seasonal_spring" -> NewDate(year, 2, 20)
      [] season = "seasonal_summer" -> NewDate(year, 5, 21)
      [] season = "seasonal_fall"   -> NewDate(year, 8, 22)
      [] season = "seasonal_winter" -> NewDate(year, 11, 21)
      [] OTHER -> NewDate(year, 0, 1)

\* Number(targetDay) in "targetDay - currentDay": null coerces to 0
ToNumber(v) == IF v = Null THEN 0 ELSE v

\* variant: "< 0" in place of "<= 0", the target weekday itself is kept
alignToWeekday_KeepsSameDay(date, targetDay) ==
    LET currentDay == GetDay(date)
        diff == ToNumber(targetDay) - currentDay
        daysUntilTarget == IF diff < 0 THEN diff + 7 ELSE diff
    IN  SetDate(date, GetDate(date) + daysUntilTarget)

alignToWeekday(date, targetDay) ==
    LET currentDay == GetDay(date)
        diff == ToNumber(targetDay) - currentDay
        daysUntilTarget == IF diff <= 0 THEN diff + 7 ELSE diff
    IN  SetDate(date, GetDate(date) + daysUntilTarget)

\* variant: the weekly branch never looks at preferredWeekday
calculateNextDueDate_IgnoresWeekday(f, d, w) ==
    LET next == SetHours0(d)
    IN  CASE f = "daily" -> SetDate(next, GetDate(next) + 1)
          [] f = "weekly" -> SetDate(next, GetDate(next) + 7)
          [] f = "biweekly" -> SetDate(next, GetDate(next) + 14)
          [] f = "monthly" -> SetMonth(next, GetMonth(next) + 1)
          [] f = "semi_monthly" -> SetDate(next, GetDate(next) + 15)
          [] f = "quarterly" -> SetMonth(next, GetMonth(next) + 3)
          [] f = "semi_annual" -> SetMonth(next, GetMonth(next) + 6)
          [] f = "annual" -> SetFullYear(next, GetFullYear(next) + 1)
          [] f \in SeasonalFrequencies ->
                getSeasonStartDate(f, GetFullYear(next) + 1)
          [] OTHER -> SetDate(next, GetDate(next) + 1)

calculateNextDueDate(f, d, w) ==
    LET next == SetHours0(d)
    IN  CASE f = "daily" -> SetDate(next, GetDate(next) + 1)
          [] f = "weekly" ->
                IF w # Undefined THEN alignToWeekday(next, w)
                ELSE SetDate(next, GetDate(next) + 7)
          [] f = "biweekly" -> SetDate(next, GetDate(next) + 14)
          [] f = "monthly" -> SetMonth(next, GetMonth(next) + 1)
          [] f = "semi_monthly" -> SetDate(next, GetDate(next) + 15)
          [] f = "quarterly" -> SetMonth(next, GetMonth(next) + 3)
          [] f = "semi_annual" -> SetMonth(next, GetMonth(next) + 6)
          [] f = "annual" -> SetFullYear(next, GetFullYear(next) + 1)
          [] f \in SeasonalFrequencies ->
                getSeasonStartDate(f, GetFullYear(next) + 1)
          [] OTHER -> SetDate(next, GetDate(next) + 1)

(***************************************************************************)
(* Batch generator calculateNextOccurrences, one loop iteration per step.  *)
(***************************************************************************)
\* default of the parameter months
months == 12

\* frequency.startsWith('seasonal_'): of the values in Frequencies the four
\* seasonal ones carry the prefix
StartsWithSeasonal(f) == f \in SeasonalFrequencies

\* variant: "<=" in place of "<", a season date on the start day is skipped
SeasonCursor_SkipsStartDay(f, cursor) ==
    IF StartsWithSeasonal(f)
    THEN LET year == GetFullYear(cursor)
             seasonDate == getSeasonStartDate(f, year)
         IN  IF seasonDate <= cursor THEN getSeasonStartDate(f, year + 1)
             ELSE seasonDate
    ELSE cursor

\* "if (frequency.startsWith('seasonal_'))": the cursor moves to the season
\* date of this year, or of the next one when this year's has passed
SeasonCursor(f, cursor) ==
    IF StartsWithSeasonal(f)
    THEN LET year == GetFullYear(cursor)
             seasonDate == getSeasonStartDate(f, year)
         IN  IF seasonDate < cursor THEN getSeasonStartDate(f, year + 1)
             ELSE seasonDate
    ELSE cursor

\* "if (frequency === 'weekly' && preferredWeekday !== undefined)": align,
\* then step a week back when that is not before startDate
WeekdayCursor(f, w, start, cursor) ==
    IF f = "weekly" /\ w # Undefined
    THEN LET aligned == alignToWeekday(cursor, w)
             checkDate == SetDate(aligned, GetDate(aligned) - 7)
         IN  IF checkDate >= start THEN checkDate ELSE aligned
    ELSE cursor

\* variant: the semi_monthly case adds 14 days
AdvanceCursor_ShortHalfMonth(f, cursor) ==
    CASE f = "daily" -> SetDate(cursor, GetDate(cursor) + 1)
      [] f = "weekly" -> SetDate(cursor, GetDate(cursor) + 7)
      [] f = "biweekly" -> SetDate(cursor, GetDate(cursor) + 14)
      [] f = "monthly" -> SetMonth(cursor, GetMonth(cursor) + 1)
      [] f = "semi_monthly" -> SetDate(cursor, GetDate(cursor) + 14)
      [] f = "quarterly" -> SetMonth(cursor, GetMonth(cursor) + 3)
      [] f \in SeasonalFrequencies \cup {"annual"} ->
            SetFullYear(cursor, GetFullYear(cursor) + 1)
      [] f = "semi_annual" -> SetMonth(cursor, GetMonth(cursor) + 6)
      [] OTHER -> cursor

\* the switch of the loop body; it has no default case, so any other
\* frequency leaves the cursor where it is
AdvanceCursor(f, cursor) ==
    CASE f = "daily" -> SetDate(cursor, GetDate(cursor) + 1)
      [] f = "weekly" -> SetDate(cursor, GetDate(cursor) + 7)
      [] f = "biweekly" -> SetDate(cursor, GetDate(cursor) + 14)
      [] f = "monthly" -> SetMonth(cursor, GetMonth(cursor) + 1)
      [] f = "semi_monthly" -> SetDate(cursor, GetDate(cursor) + 15)
      [] f = "quarterly" -> SetMonth(cursor, GetMonth(cursor) + 3)
      [] f \in SeasonalFrequencies \cup {"annual"} ->
            SetFullYear(cursor, GetFullYear(cursor) + 1)
      [] f = "semi_annual" -> SetMonth(cursor, GetMonth(cursor) + 6)
      [] OTHER -> cursor

\* longest list the model lets the loop build; a year of daily dates fits
MaxDates == 370

\* lines 53-83: endDate, the cursor at the start of the day, the two adjustments
BeginOccurrences ==
    /\ pc = "idle"
    /\ dates' = <<>>
    /\ endDate' = SetMonth(startDate, GetMonth(startDate) + months)
    /\ current' = WeekdayCursor(frequency, preferredWeekday, startDate,
                                SeasonCursor(frequency, SetHours0(startDate)))
    /\ pc' = "loop"
    /\ UNCHANGED <<frequency, afterDate, preferredWeekday, nextDueDate, startDate,
                   tierVars, screenVars, sorted, budgeted, overflow, currentTime,
                   overdueCount, overdueInOverflow, visited, lifecycleVars>>

\* one iteration of "while (current <= endDate)": push, then switch
PushOccurrence ==
    /\ pc = "loop"
    /\ current <= endDate
    /\ Len(dates) < MaxDates
    /\ dates' = Append(dates, current)
    /\ current' = AdvanceCursor(frequency, current)
    /\ UNCHANGED <<pc, frequency, afterDate, preferredWeekday, nextDueDate,
                   startDate, endDate, tierVars, screenVars, sorted, budgeted,
                   overflow, currentTime, overdueCount, overdueInOverflow, visited,
                   lifecycleVars>>

\* the loop condition fails: return dates
ReturnOccurrences ==
    /\ pc = "loop"
    /\ current > endDate
    /\ pc' = "done"
    /\ UNCHANGED <<recurrenceVars, tierVars, screenVars, sorted, budgeted,
                   overflow, currentTime, overdueCount, overdueInOverflow, visited,
                   lifecycleVars>>

(***************************************************************************)
(* Urgency classifier.                                                     *)
(***************************************************************************)
DEFAULT_DAILY_TIME_BUDGET_MINUTES == 75

URGENCY_WINDOWS ==
    [f \in RecognizedFrequencies |->
        CASE f \in {"daily", "weekly"} -> 0
          [] f = "biweekly" -> 3
          [] f = "monthly" -> 7
          [] f = "semi_monthly" -> 5
          [] f = "quarterly" -> 10
          [] OTHER -> 14]

FREQUENCY_PRIORITY ==
    [f \in RecognizedFrequencies |->
        CASE f = "daily" -> 1
          [] f = "weekly" -> 2
          [] f = "biweekly" -> 3
          [] f = "semi_monthly" -> 4
          [] f = "monthly" -> 5
          [] f = "quarterly" -> 6
          [] f \in SeasonalFrequencies -> 7
          [] f = "semi_annual" -> 8
          [] OTHER -> 9]

\* variant: a frequency missing from the table ranks before all others
getFrequencyPriority_UnknownFirst(f) ==
    IF f \in DOMAIN FREQUENCY_PRIORITY THEN FREQUENCY_PRIORITY[f] ELSE 0

getFrequencyPriority(f) ==
    IF f \in DOMAIN FREQUENCY_PRIORITY THEN FREQUENCY_PRIORITY[f] ELSE 10

\* new Date("YYYY-MM-DD"): midnight UTC of that day, seen on the local clock
ParseDateString(day, tz) == day * HoursPerDay + tz

\* the string form of a due date is parsed as UTC, then floored to local midnight
getDaysUntilDue(due, clock, tz) ==
    LET today == SetHours0(clock)
        dueLocal == SetHours0(ParseDateString(due, tz))
        diffMs == dueLocal - today
    IN  diffMs \div HoursPerDay

\* variant: "<" in place of "<=" at the urgency window
getTaskUrgencyTier_StrictWindow(f, due, clock, tz) ==
    IF due = Null THEN "get_ahead"
    ELSE LET daysUntil == getDaysUntilDue(due, clock, tz)
             urgencyWindow == IF f \in DOMAIN URGENCY_WINDOWS
                              THEN URGENCY_WINDOWS[f] ELSE 7
         IN  IF daysUntil < 0 THEN "overdue"
             ELSE IF f \in {"daily", "weekly"} /\ daysUntil = 0 THEN "primary"
             ELSE IF daysUntil < urgencyWindow THEN "urgent"
             ELSE "get_ahead"

getTaskUrgencyTier(f, due, clock, tz) ==
    IF due = Null THEN "get_ahead"
    ELSE LET daysUntil == getDaysUntilDue(due, clock, tz)
             urgencyWindow == IF f \in DOMAIN URGENCY_WINDOWS
                              THEN URGENCY_WINDOWS[f] ELSE 7
         IN  IF daysUntil < 0 THEN "overdue"
             ELSE IF f \in {"daily", "weekly"} /\ daysUntil = 0 THEN "primary"
             ELSE IF daysUntil <= urgencyWindow THEN "urgent"
             ELSE "get_ahead"

\* "customUrgencyWindow ?? URGENCY_WINDOWS[frequency] ?? 7"; the clock and the
\* zone are those of the running process
isTaskUrgent(f, due, customUrgencyWindow, clock, tz) ==
    IF due = Null THEN FALSE
    ELSE LET daysUntil == getDaysUntilDue(due, clock, tz)
             urgencyWindow == IF customUrgencyWindow # Undefined
                              THEN customUrgencyWindow
                              ELSE IF f \in DOMAIN URGENCY_WINDOWS
                              THEN URGENCY_WINDOWS[f] ELSE 7
         IN  IF daysUntil < 0 THEN TRUE
             ELSE IF f \in {"daily", "weekly"} THEN TRUE
             ELSE daysUntil <= urgencyWindow

(***************************************************************************)
(* Budget allocator of the home screen.                                    *)
(***************************************************************************)
\* budget_enabled !== false, then the profile's budget or the default or 999999
budgetEnabled ==
    ~("budget_enabled" \in DOMAIN userProfile /\ userProfile.budget_enabled = FALSE)

\* userProfile?.daily_time_budget
ProfileBudget ==
    IF "daily_time_budget" \in DOMAIN userProfile
    THEN userProfile.daily_time_budget ELSE Undefined

dailyTimeBudget ==
    IF budgetEnabled
    THEN IF ProfileBudget \in {Null, Undefined}
         THEN DEFAULT_DAILY_TIME_BUDGET_MINUTES
         ELSE ProfileBudget
    ELSE 999999

\* pendingTaskMap.get(task.id) || null
PendingDue(id) == IF id \in DOMAIN pendingTaskMap THEN pendingTaskMap[id] ELSE Null

getTaskTier(task) ==
    getTaskUrgencyTier(task.frequency, PendingDue(task.id), now, tzOffset)

\* variant: urgent ranks ahead of overdue
tierOrder_UrgentFirst == [overdue |-> 1, urgent |-> 0, primary |-> 2, get_ahead |-> 3]

tierOrder == [overdue |-> 0, urgent |-> 1, primary |-> 2, get_ahead |-> 3]

\* task.estimated_time || 10
TaskTime(task) ==
    IF task.estimated_time \in {Null, Undefined, 0}
    THEN 10 ELSE task.estimated_time

\* variant: the comparator skips the tier and starts at the frequency priority
CompareTasks_IgnoresTier(a, b) ==
    LET aFreqPriority == getFrequencyPriority(a.frequency)
        bFreqPriority == getFrequencyPriority(b.frequency)
    IN  IF aFreqPriority # bFreqPriority THEN aFreqPriority - bFreqPriority
        ELSE TaskTime(a) - TaskTime(b)

\* the comparator handed to Array.prototype.sort
CompareTasks(a, b) ==
    LET aTier == tierOrder[getTaskTier(a)]
        bTier == tierOrder[getTaskTier(b)]
        aFreqPriority == getFrequencyPriority(a.frequency)
        bFreqPriority == getFrequencyPriority(b.frequency)
    IN  IF aTier # bTier THEN aTier - bTier
        ELSE IF aFreqPriority # bFreqPriority THEN aFreqPriority - bFreqPriority
        ELSE TaskTime(a) - TaskTime(b)

\* Array.prototype.sort is stable: x goes before the first element it is
\* strictly smaller than
RECURSIVE InsertTask(_, _)
InsertTask(s, x) ==
    IF s = <<>> THEN <<x>>
    ELSE IF CompareTasks(x, Head(s)) < 0 THEN <<x>> \o s
    ELSE <<Head(s)>> \o InsertTask(Tail(s), x)

RECURSIVE SortTasks(_)
SortTasks(s) ==
    IF s = <<>> THEN <<>>
    ELSE InsertTask(SortTasks(SubSeq(s, 1, Len(s) - 1)), s[Len(s)])

\* variant: the completed-today filter is dropped
IsActive_KeepsAll(t) == TRUE

IsActive(t) == t.id \notin completedTaskIds

getSortedActiveTasks == SortTasks(SelectSeq(tasks, IsActive))

\* variant: the task's own minutes are left out of the test
fitsInBudget_IgnoresTask(task) == currentTime <= dailyTimeBudget

\* variant: "<" in place of "<="
fitsInBudget_Strict(task) == currentTime + TaskTime(task) < dailyTimeBudget

\* currentTime + taskTime <= dailyTimeBudget
fitsInBudget(task) == currentTime + TaskTime(task) <= dailyTimeBudget

\* getBudgetedTasks(): entry, up to the for-loop
BeginAllocation ==
    /\ pc = "idle"
    /\ sorted' = getSortedActiveTasks
    /\ budgeted' = <<>>
    /\ overflow' = <<>>
    /\ currentTime' = 0
    /\ overdueCount' = 0
    /\ overdueInOverflow' = 0
    /\ visited' = 0
    /\ pc' = "walk"
    /\ UNCHANGED <<recurrenceVars, tierVars, screenVars, lifecycleVars>>

\* the branch "if (fitsInBudget)" of the loop body
AdmitTask(task, taskTier) ==
    /\ budgeted' = Append(budgeted, task)
    /\ currentTime' = currentTime + TaskTime(task)
    /\ overdueCount' = IF taskTier = "overdue" THEN overdueCount + 1 ELSE overdueCount
    /\ UNCHANGED <<overflow, overdueInOverflow>>

\* variant: the overdue counter of the else branch counts every rejected task
RejectTask_CountsAll(task, taskTier) ==
    /\ overflow' = Append(overflow, task)
    /\ overdueInOverflow' = overdueInOverflow + 1
    /\ UNCHANGED <<budgeted, currentTime, overdueCount>>

\* the else branch of the loop body
RejectTask(task, taskTier) ==
    /\ overflow' = Append(overflow, task)
    /\ overdueInOverflow' =
           IF taskTier = "overdue" THEN overdueInOverflow + 1 ELSE overdueInOverflow
    /\ UNCHANGED <<budgeted, currentTime, overdueCount>>

\* one iteration of "for (const task of sorted)"
VisitTask ==
    /\ pc = "walk"
    /\ visited < Len(sorted)
    /\ LET task == sorted[visited + 1]
       IN  IF fitsInBudget(task)
           THEN AdmitTask(task, getTaskTier(task))
           ELSE RejectTask(task, getTaskTier(task))
    /\ visited' = visited + 1
    /\ UNCHANGED <<pc, sorted, recurrenceVars, tierVars, screenVars, lifecycleVars>>

\* the return statement of getBudgetedTasks()
ReturnAllocation ==
    /\ pc = "walk"
    /\ visited = Len(sorted)
    /\ pc' = "done"
    /\ UNCHANGED <<sorted, budgeted, overflow, currentTime, overdueCount,
                   overdueInOverflow, visited, recurrenceVars, tierVars, screenVars,
                   lifecycleVars>>

\* the amber "overdue tasks in Get Ahead" alert is rendered
overdueOverflowAlert == pc = "done" /\ overdueInOverflow > 0

(***************************************************************************)
(* Calls of the two pure functions on enumerated arguments.                *)
(***************************************************************************)
CallCalculateNextDueDate ==
    /\ pc = "idle"
    /\ nextDueDate' = calculateNextDueDate(frequency, afterDate, preferredWeekday)
    /\ pc' = "done"
    /\ UNCHANGED <<frequency, afterDate, preferredWeekday, occurrenceVars, tierVars,
                   screenVars, sorted, budgeted, overflow, currentTime,
                   overdueCount, overdueInOverflow, visited, lifecycleVars>>

CallGetTaskUrgencyTier ==
    /\ pc = "idle"
    /\ tier' = getTaskUrgencyTier(tierFrequency, dueDate, now, tzOffset)
    /\ pc' = "done"
    /\ UNCHANGED <<tierFrequency, dueDate, now, tzOffset, urgent, recurrenceVars,
                   screenVars, sorted, budgeted, overflow, currentTime,
                   overdueCount, overdueInOverflow, visited, lifecycleVars>>

\* isTaskUrgent(frequency, dueDate) on the same inputs, before or after the
\* tier call
CallIsTaskUrgent ==
    /\ urgent = NotCalled
    /\ urgent' = <<isTaskUrgent(tierFrequency, dueDate, Undefined, now, tzOffset)>>
    /\ UNCHANGED <<tierFrequency, dueDate, now, tzOffset, tier, recurrenceVars,
                   screenVars, walkVars, lifecycleVars>>

(***************************************************************************)
(* Input spaces.                                                           *)
(***************************************************************************)
\* the day the clock shows in the classifier and allocator runs
ReferenceDay == MakeDay(LastYear, 5, 15)

\* hours of the day at which a Date argument or the clock is sampled
SampleHours == {0, 14}

\* UTC offsets of the device: west of, at, and east of Greenwich
TimeZoneOffsets == {-5, 0, 9}

AnchorDates ==
    {day * HoursPerDay + h :
        day \in MakeDay(FirstYear, 0, 1) .. MakeDay(LastYear, 11, 31),
        h \in SampleHours}

Weekdays == 0 .. 6

\* values of the optional argument: a weekday, omitted, or a null column value
PreferredWeekdays == Weekdays \cup {Undefined, Null}

IdleOccurrences ==
    /\ startDate = 0
    /\ endDate = 0
    /\ current = 0
    /\ dates = <<>>

IdleRecurrence ==
    /\ frequency = "daily"
    /\ afterDate = 0
    /\ preferredWeekday = Undefined
    /\ nextDueDate = Undefined
    /\ IdleOccurrences

IdleTier ==
    /\ tierFrequency = "daily"
    /\ dueDate = Null
    /\ tier = NoTier
    /\ urgent = NotCalled

IdleClock ==
    /\ now = ReferenceDay * HoursPerDay
    /\ tzOffset = 0

IdleScreen ==
    /\ tasks = <<>>
    /\ completedTaskIds = {}
    /\ pendingTaskMap = <<>>
    /\ userProfile = NoProfile

IdleWalk ==
    /\ pc = "idle"
    /\ sorted = <<>>
    /\ budgeted = <<>>
    /\ overflow = <<>>
    /\ currentTime = 0
    /\ overdueCount = 0
    /\ overdueInOverflow = 0
    /\ visited = 0

NoProgress == [percent |-> 0, count |-> 0, total |-> 0]

IdleLifecycle ==
    /\ taskEvents = <<>>
    /\ calendarTasks = <<>>
    /\ mountedRows = {}
    /\ calls = <<>>
    /\ progress = NoProgress

InitRecurrence ==
    /\ frequency \in Frequencies
    /\ afterDate \in AnchorDates
    /\ preferredWeekday \in PreferredWeekdays
    /\ nextDueDate = Undefined
    /\ IdleOccurrences
    /\ IdleTier /\ IdleClock /\ IdleScreen /\ IdleWalk /\ IdleLifecycle

NextRecurrence == CallCalculateNextDueDate

SpecRecurrence == InitRecurrence /\ [][NextRecurrence]_vars

\* start days of the batch runs: late January to the spring date (a month's
\* 31st, the end of February, the spring date itself) and the days around
\* the three other season dates
StartDays ==
    (MakeDay(LastYear, 0, 28) .. MakeDay(LastYear, 2, 21))
        \cup (MakeDay(LastYear, 5, 20) .. MakeDay(LastYear, 5, 22))
        \cup (MakeDay(LastYear, 8, 21) .. MakeDay(LastYear, 8, 23))
        \cup (MakeDay(LastYear, 11, 20) .. MakeDay(LastYear, 11, 22))

\* preferredWeekday is read for weekly tasks only
InitOccurrences ==
    /\ frequency \in Frequencies
    /\ preferredWeekday \in
          IF frequency = "weekly" THEN PreferredWeekdays ELSE {Undefined}
    /\ startDate \in {day * HoursPerDay + h : day \in StartDays, h \in SampleHours}
    /\ endDate = 0
    /\ current = 0
    /\ dates = <<>>
    /\ afterDate = 0
    /\ nextDueDate = Undefined
    /\ IdleTier /\ IdleClock /\ IdleScreen /\ IdleWalk /\ IdleLifecycle

NextOccurrences == BeginOccurrences \/ PushOccurrence \/ ReturnOccurrences

SpecOccurrences == InitOccurrences /\ [][NextOccurrences]_vars

InitTier ==
    /\ tierFrequency \in Frequencies
    /\ dueDate \in {Null} \cup ((ReferenceDay - MaxDaysBehind) .. (ReferenceDay + MaxDaysAhead))
    /\ now \in {ReferenceDay * HoursPerDay + h : h \in SampleHours}
    /\ tzOffset \in TimeZoneOffsets
    /\ tier = NoTier
    /\ urgent = NotCalled
    /\ IdleRecurrence /\ IdleScreen /\ IdleWalk /\ IdleLifecycle

NextTier == CallGetTaskUrgencyTier \/ CallIsTaskUrgent

SpecTier == InitTier /\ [][NextTier]_vars

(***************************************************************************)
(* Home screen inputs: the task rows, their earliest pending due dates,    *)
(* the ids completed today and the profile's budget settings.              *)
(***************************************************************************)
MIN_DAILY_TIME_BUDGET == 30

SampleFrequencies == {"daily", "monthly"}

\* due day of the earliest pending occurrence: none, yesterday, today
SampleDues == {Null, ReferenceDay - 1, ReferenceDay}

SampleEstimates == {Null, 40}

TaskShapes ==
    [frequency : SampleFrequencies, due : SampleDues,
     estimated_time : SampleEstimates]

\* spec section 8: overdue 30 min, urgent 20 min, primary 40 min
ScenarioBudget ==
    <<[frequency |-> "daily", due |-> ReferenceDay, estimated_time |-> 40],
      [frequency |-> "monthly", due |-> ReferenceDay + 5, estimated_time |-> 20],
      [frequency |-> "weekly", due |-> ReferenceDay - 1, estimated_time |-> 30]>>

\* spec section 8: weekly due yesterday, monthly due in 5 days, annual in 30
ScenarioTiers ==
    <<[frequency |-> "weekly", due |-> ReferenceDay - 1, estimated_time |-> Null],
      [frequency |-> "monthly", due |-> ReferenceDay + 5, estimated_time |-> Null],
      [frequency |-> "annual", due |-> ReferenceDay + 30, estimated_time |-> Null]>>

\* an estimate typed into the unvalidated numeric field (ManageCoreTaskModal.tsx:82)
ScenarioLongTask ==
    <<[frequency |-> "annual", due |-> ReferenceDay - 1, estimated_time |-> 1000000]>>

\* tasks without a pending occurrence: an unrecognized frequency, the last
\* recognized one and a seasonal one
ScenarioFrequencies ==
    <<[frequency |-> UnrecognizedFrequency, due |-> Null, estimated_time |-> Null],
      [frequency |-> "annual", due |-> Null, estimated_time |-> Null],
      [frequency |-> "seasonal_winter", due |-> Null, estimated_time |-> 40]>>

TaskLists ==
    UNION {[1 .. n -> TaskShapes] : n \in 0 .. MaxTasks}
        \cup {ScenarioBudget, ScenarioTiers, ScenarioLongTask, ScenarioFrequencies}

Profiles ==
    {NoProfile,
     [budget_enabled |-> TRUE, daily_time_budget |-> MIN_DAILY_TIME_BUDGET],
     [budget_enabled |-> FALSE, daily_time_budget |-> Null]}

\* the rows as fetchData leaves them in tasks and pendingTaskMap
TasksOf(shapes) ==
    [i \in 1 .. Len(shapes) |->
        [id |-> i, frequency |-> shapes[i].frequency,
         estimated_time |-> shapes[i].estimated_time]]

PendingOf(shapes) ==
    [i \in {j \in 1 .. Len(shapes) : shapes[j].due # Null} |->
        shapes[i].due]

InitScreen ==
    /\ \E shapes \in TaskLists :
          /\ tasks = TasksOf(shapes)
          /\ pendingTaskMap = PendingOf(shapes)
    /\ completedTaskIds \in {{}, {1}}
    /\ userProfile \in Profiles
    /\ now = ReferenceDay * HoursPerDay + 14
    /\ tzOffset = 0
    /\ IdleRecurrence /\ IdleTier /\ IdleWalk /\ IdleLifecycle

NextScreen == BeginAllocation \/ VisitTask \/ ReturnAllocation

SpecScreen == InitScreen /\ [][NextScreen]_vars

(***************************************************************************)
(* Occurrence lifecycle: the task_events table, handleMarkDone of the home *)
(* screen, handleToggleStatus of the calendar screens, and the home        *)
(* screen's progress summary.  A due_date is the day number of its         *)
(* YYYY-MM-DD string; a timestamp is a UTC instant in hours.               *)
(***************************************************************************)
MaxCalls == 2

\* Date.prototype.toISOString(): the UTC instant of a local wall-clock value
toISOString(date, tz) == date - tz

\* formatDate(date): date.toISOString().split('T')[0]
formatDate(date, tz) == DayNumber(toISOString(date, tz))

\* new Date().toISOString().split('T')[0]
todayStr == formatDate(now, tzOffset)

\* a task row whose frequency (and its core task's) is null
NoFrequency == ""

\* "if (frequency)"
HasFrequency(f) == f # NoFrequency

\* variant: the completion insert leaves completed_at to its null default
CompletedEvent_Unstamped(taskId) ==
    [user_task_id |-> taskId, due_date |-> todayStr, status |-> "completed",
     completed_at |-> Null]

\* the row of the first insert of handleMarkDone
CompletedEvent(taskId) ==
    [user_task_id |-> taskId, due_date |-> todayStr, status |-> "completed",
     completed_at |-> toISOString(now, tzOffset)]

\* the row of a next-occurrence insert: status pending, completed_at left null
PendingEvent(taskId, due) ==
    [user_task_id |-> taskId, due_date |-> due, status |-> "pending",
     completed_at |-> Null]

\* the pending row with the earliest due date among a task's rows, 0 if none
EarliestPendingRow(taskId) ==
    LET mine == {i \in 1 .. Len(taskEvents) :
                    /\ taskEvents[i].user_task_id = taskId
                    /\ taskEvents[i].status = "pending"}
    IN  IF mine = {} THEN 0
        ELSE CHOOSE i \in mine :
                 \A j \in mine :
                     \/ taskEvents[i].due_date < taskEvents[j].due_date
                     \/ taskEvents[i].due_date = taskEvents[j].due_date /\ i <= j

\* the frame of one handleMarkDone(task) invocation; wasCompleted, rowsBefore
\* and occurrence record the state at the press
MarkDoneFrame(task) ==
    [handler |-> "handleMarkDone", screen |-> "HomeScreen", pc |-> "completion",
     task |-> task.id, item |-> 0, newStatus |-> "completed",
     frequency |-> task.frequency,
     weekday |-> IF task.frequency = "weekly" THEN task.preferred_weekday
                 ELSE Undefined,
     wasCompleted |-> task.id \in completedTaskIds,
     rowsBefore |-> Len(taskEvents),
     occurrence |-> EarliestPendingRow(task.id)]

\* the catch block of handleMarkDone: next.delete(task.id)
RevertOptimistic(ids, id) == ids \ {id}

\* variant: a failed next-occurrence insert is thrown into the catch block
nextErrorHandled_RollsBack(ids, id) == ids \ {id}

\* "if (nextError) { console.warn(...) }": nothing is thrown, the set is kept
nextErrorHandled(ids, id) == ids

\* a press on a mounted row: handleMarkDone(task) up to its first await
handleMarkDone ==
    /\ Len(calls) < MaxCalls
    /\ \E i \in 1 .. Len(tasks) :
          /\ tasks[i].id \in mountedRows
          /\ completedTaskIds' = completedTaskIds \cup {tasks[i].id}
          /\ calls' = Append(calls, MarkDoneFrame(tasks[i]))
    /\ UNCHANGED <<taskEvents, calendarTasks, mountedRows, progress, tasks,
                   pendingTaskMap, userProfile, recurrenceVars, tierVars, walkVars>>

\* the insert of the completed row returns; on error the catch block runs
MarkDoneCompletionSettles ==
    /\ \E c \in 1 .. Len(calls), error \in BOOLEAN :
          /\ calls[c].handler = "handleMarkDone"
          /\ calls[c].pc = "completion"
          /\ IF error
             THEN /\ completedTaskIds' =
                         RevertOptimistic(completedTaskIds, calls[c].task)
                  /\ calls' = [calls EXCEPT ![c].pc = "failed"]
                  /\ UNCHANGED taskEvents
             ELSE /\ taskEvents' = Append(taskEvents, CompletedEvent(calls[c].task))
                  /\ calls' = [calls EXCEPT ![c].pc =
                                  IF HasFrequency(calls[c].frequency) THEN "next"
                                  ELSE "done"]
                  /\ UNCHANGED completedTaskIds
    /\ UNCHANGED <<calendarTasks, mountedRows, progress, tasks, pendingTaskMap,
                   userProfile, recurrenceVars, tierVars, walkVars>>

\* the insert of the next pending row returns
MarkDoneNextSettles ==
    /\ \E c \in 1 .. Len(calls), nextError \in BOOLEAN :
          /\ calls[c].handler = "handleMarkDone"
          /\ calls[c].pc = "next"
          /\ IF nextError
             THEN /\ completedTaskIds' =
                         nextErrorHandled(completedTaskIds, calls[c].task)
                  /\ calls' = [calls EXCEPT ![c].pc = "unscheduled"]
                  /\ UNCHANGED taskEvents
             ELSE /\ taskEvents' =
                         Append(taskEvents,
                                PendingEvent(calls[c].task,
                                    formatDate(calculateNextDueDate(
                                                   calls[c].frequency, now,
                                                   calls[c].weekday),
                                               tzOffset)))
                  /\ calls' = [calls EXCEPT ![c].pc = "done"]
                  /\ UNCHANGED completedTaskIds
    /\ UNCHANGED <<calendarTasks, mountedRows, progress, tasks, pendingTaskMap,
                   userProfile, recurrenceVars, tierVars, walkVars>>

\* the frequency the calendar's join reads for an event's task
FrequencyOf(taskId) ==
    LET i == CHOOSE j \in 1 .. Len(tasks) : tasks[j].id = taskId
    IN  tasks[i].frequency

\* the two calendar screens of the repository
CalendarScreens == {"part_003", "CalendarScreen"}

\* variant: an occurrence that is not completed is marked skipped
ToggledStatus_Skips(status) == IF status = "completed" THEN "pending" ELSE "skipped"

\* const newStatus = item.status === 'completed' ? 'pending' : 'completed'
ToggledStatus(status) == IF status = "completed" THEN "pending" ELSE "completed"

\* the frame of one handleToggleStatus(item) invocation
ToggleFrame(id, screen) ==
    [handler |-> "handleToggleStatus", screen |-> screen, pc |-> "completion",
     task |-> taskEvents[id].user_task_id, item |-> id,
     newStatus |-> ToggledStatus(calendarTasks[id]),
     frequency |-> FrequencyOf(taskEvents[id].user_task_id),
     weekday |-> Undefined,
     wasCompleted |-> taskEvents[id].user_task_id \in completedTaskIds,
     rowsBefore |-> Len(taskEvents),
     occurrence |-> id]

\* fetchEvents(): every row of the window replaces its local item
fetchEvents(rows) == [i \in 1 .. Len(rows) |-> rows[i].status]

\* setTasks(prev => prev.map(t => t.id === item.id ? {...t, status} : t))
PatchItem(items, id, status) ==
    [i \in DOMAIN items |-> IF i = id THEN status ELSE items[i]]

\* a press on a calendar item: handleToggleStatus(item) up to its await
handleToggleStatus ==
    /\ Len(calls) < MaxCalls
    /\ \E id \in DOMAIN calendarTasks, screen \in CalendarScreens :
          calls' = Append(calls, ToggleFrame(id, screen))
    /\ UNCHANGED <<taskEvents, calendarTasks, mountedRows, progress, screenVars,
                   recurrenceVars, tierVars, walkVars>>

\* the update of the row returns; part_003 goes on to schedule the next
\* occurrence, CalendarScreen.tsx patches the local item at once
ToggleUpdateSettles ==
    /\ \E c \in 1 .. Len(calls), error \in BOOLEAN :
          /\ calls[c].handler = "handleToggleStatus"
          /\ calls[c].pc = "completion"
          /\ IF error
             THEN /\ calls' = [calls EXCEPT ![c].pc = "failed"]
                  /\ UNCHANGED <<taskEvents, calendarTasks>>
             ELSE /\ taskEvents' =
                         [taskEvents EXCEPT
                             ![calls[c].item].status = calls[c].newStatus,
                             ![calls[c].item].completed_at =
                                 IF calls[c].newStatus = "completed"
                                 THEN toISOString(now, tzOffset) ELSE Null]
                  /\ IF /\ calls[c].screen = "part_003"
                        /\ calls[c].newStatus = "completed"
                        /\ HasFrequency(calls[c].frequency)
                     THEN /\ calls' = [calls EXCEPT ![c].pc = "next"]
                          /\ UNCHANGED calendarTasks
                     ELSE /\ calls' = [calls EXCEPT ![c].pc = "done"]
                          /\ calendarTasks' =
                                 PatchItem(calendarTasks, calls[c].item,
                                           calls[c].newStatus)
    /\ UNCHANGED <<mountedRows, progress, screenVars, recurrenceVars, tierVars,
                   walkVars>>

\* part_003: the insert of the next pending row returns; on success the
\* window is fetched again, in both cases the local item is patched
ToggleNextSettles ==
    /\ \E c \in 1 .. Len(calls), nextError \in BOOLEAN :
          /\ calls[c].handler = "handleToggleStatus"
          /\ calls[c].pc = "next"
          /\ IF nextError
             THEN /\ calls' = [calls EXCEPT ![c].pc = "unscheduled"]
                  /\ calendarTasks' =
                         PatchItem(calendarTasks, calls[c].item, calls[c].newStatus)
                  /\ UNCHANGED taskEvents
             ELSE /\ taskEvents' =
                         Append(taskEvents,
                                PendingEvent(calls[c].task,
                                    formatDate(calculateNextDueDate(
                                                   calls[c].frequency, now,
                                                   calls[c].weekday),
                                               tzOffset)))
                  /\ calls' = [calls EXCEPT ![c].pc = "done"]
                  /\ calendarTasks' = fetchEvents(taskEvents')
    /\ UNCHANGED <<mountedRows, progress, screenVars, recurrenceVars, tierVars,
                   walkVars>>

\* fetchData step 2: the tasks with a completed row since local midnight
CompletedToday(rows) ==
    {rows[i].user_task_id : i \in
        {j \in 1 .. Len(rows) :
            /\ rows[j].status = "completed"
            /\ rows[j].completed_at >= toISOString(SetHours0(now), tzOffset)}}

\* variant: the first due date met for a task is kept, later rows are ignored
pendingMapFrom_FirstSeen(rows, k) ==
    LET pending == {i \in 1 .. k : rows[i].status = "pending"}
        First(t) == CHOOSE i \in pending :
                        /\ rows[i].user_task_id = t
                        /\ \A j \in pending : rows[j].user_task_id = t => i <= j
    IN  [t \in {rows[i].user_task_id : i \in pending} |-> rows[First(t)].due_date]

\* fetchData step 3: the forEach over the pending rows, after its first k rows
RECURSIVE pendingMapFrom(_, _)
pendingMapFrom(rows, k) ==
    IF k = 0 THEN <<>>
    ELSE LET pendingMap == pendingMapFrom(rows, k - 1)
             event == rows[k]
         IN  IF /\ event.status = "pending"
                /\ \/ event.user_task_id \notin DOMAIN pendingMap
                   \/ event.due_date < pendingMap[event.user_task_id]
             THEN (event.user_task_id :> event.due_date) @@ pendingMap
             ELSE pendingMap

isTaskRelevant(task) ==
    \/ task.frequency = "daily"
    \/ /\ PendingDue(task.id) # Null
       /\ PendingDue(task.id) <= todayStr

\* Math.round(n / d) for n >= 0 and d > 0
MathRound(n, d) == (2 * n + d) \div (2 * d)

getDailyProgress ==
    LET relevantTasks == {i \in 1 .. Len(tasks) : isTaskRelevant(tasks[i])}
        completedRelevant == {i \in relevantTasks : tasks[i].id \in completedTaskIds}
        totalDue == Cardinality(relevantTasks)
        totalDone == Cardinality(completedRelevant)
    IN  [percent |-> IF totalDue > 0 THEN MathRound(100 * totalDone, totalDue) ELSE 0,
         count |-> totalDone,
         total |-> totalDue]

\* the rows of the lists that carry an onPress={() => handleMarkDone(task)}
PressableRows == {tasks[i].id : i \in {j \in 1 .. Len(tasks) : IsActive(tasks[j])}}

\* a render of the home screen after a state change
Render ==
    /\ mountedRows' = PressableRows
    /\ progress' = getDailyProgress
    /\ mountedRows' # mountedRows \/ progress' # progress
    /\ UNCHANGED <<taskEvents, calendarTasks, calls, screenVars, recurrenceVars,
                   tierVars, walkVars>>

InFlight == {c \in 1 .. Len(calls) : calls[c].pc \in {"completion", "next"}}

\* the home screen is mounted again: fetchData() reloads both sets
fetchData ==
    /\ InFlight = {}
    /\ completedTaskIds' = CompletedToday(taskEvents)
    /\ pendingTaskMap' = pendingMapFrom(taskEvents, Len(taskEvents))
    /\ completedTaskIds' # completedTaskIds \/ pendingTaskMap' # pendingTaskMap
    /\ UNCHANGED <<tasks, userProfile, lifecycleVars, recurrenceVars, tierVars,
                   walkVars>>

\* generateTaskEventsForUser: due_date: formatDate(date) of a local midnight
SeedDue(day) == formatDate(day * HoursPerDay, tzOffset)

UserTask(id, f, w) ==
    [id |-> id, frequency |-> f, estimated_time |-> Null, preferred_weekday |-> w]

\* households: the user_tasks rows and, per task, the days of its seeded rows
Households ==
    {[tasks |-> <<UserTask(1, "daily", 0)>>,
      seeded |-> <<[task |-> 1, day |-> ReferenceDay, status |-> "pending"],
                   [task |-> 1, day |-> ReferenceDay + 1, status |-> "pending"]>>],
     [tasks |-> <<UserTask(1, "weekly", 3), UserTask(2, "monthly", 0)>>,
      seeded |-> <<[task |-> 1, day |-> ReferenceDay - 1, status |-> "pending"],
                   [task |-> 2, day |-> ReferenceDay - 1, status |-> "skipped"],
                   [task |-> 2, day |-> ReferenceDay + 1, status |-> "pending"]>>],
     [tasks |-> <<UserTask(1, NoFrequency, 0), UserTask(2, "monthly", 0)>>,
      seeded |-> <<[task |-> 2, day |-> ReferenceDay, status |-> "pending"]>>]}

SeedEvents(seeded) ==
    [i \in 1 .. Len(seeded) |->
        [user_task_id |-> seeded[i].task, due_date |-> SeedDue(seeded[i].day),
         status |-> seeded[i].status, completed_at |-> Null]]

\* wall clocks: an evening west of UTC, an afternoon at UTC, and the first
\* hour of the day east of UTC
LifecycleClocks ==
    {[hour |-> 20, tz |-> -5], [hour |-> 14, tz |-> 0], [hour |-> 0, tz |-> 9]}

InitLifecycle ==
    /\ \E clock \in LifecycleClocks :
          /\ now = ReferenceDay * HoursPerDay + clock.hour
          /\ tzOffset = clock.tz
    /\ \E h \in Households :
          /\ tasks = h.tasks
          /\ taskEvents = SeedEvents(h.seeded)
    /\ completedTaskIds = CompletedToday(taskEvents)
    /\ pendingTaskMap = pendingMapFrom(taskEvents, Len(taskEvents))
    /\ userProfile = NoProfile
    /\ calendarTasks = fetchEvents(taskEvents)
    /\ mountedRows = PressableRows
    /\ progress = getDailyProgress
    /\ calls = <<>>
    /\ IdleRecurrence /\ IdleTier /\ IdleWalk

NextLifecycle ==
    \/ handleMarkDone
    \/ MarkDoneCompletionSettles
    \/ MarkDoneNextSettles
    \/ handleToggleStatus
    \/ ToggleUpdateSettles
    \/ ToggleNextSettles
    \/ Render
    \/ fetchData

SpecLifecycle == InitLifecycle /\ [][NextLifecycle]_vars

(***************************************************************************)
(* fetchData on an arbitrary store: the rows come back in whatever order   *)
(* the query returns them.                                                 *)
(***************************************************************************)
MaxRows == 3

\* rows of task_events for two tasks, pending or completed today
StoreRows ==
    {[user_task_id |-> t, due_date |-> d, status |-> "pending",
      completed_at |-> Null] :
        t \in {1, 2}, d \in (ReferenceDay - 1) .. (ReferenceDay + 1)}
    \cup
    {[user_task_id |-> t, due_date |-> d, status |-> "completed",
      completed_at |-> toISOString(ReferenceDay * HoursPerDay + 9, 0)] :
        t \in {1, 2}, d \in (ReferenceDay - 1) .. (ReferenceDay + 1)}

\* the screen mounts with empty sets; the store holds up to MaxRows rows
InitFetch ==
    /\ now = ReferenceDay * HoursPerDay + 14
    /\ tzOffset = 0
    /\ tasks = <<UserTask(1, "daily", 0), UserTask(2, "monthly", 0)>>
    /\ taskEvents \in UNION {[1 .. n -> StoreRows] : n \in 0 .. MaxRows}
    /\ completedTaskIds = {}
    /\ pendingTaskMap = <<>>
    /\ userProfile = NoProfile
    /\ calendarTasks = <<>>
    /\ mountedRows = {}
    /\ progress = NoProgress
    /\ calls = <<>>
    /\ IdleRecurrence /\ IdleTier /\ IdleWalk

NextFetch == fetchData

SpecFetch == InitFetch /\ [][NextFetch]_vars

(***************************************************************************)
(* Properties of the recurrence calculator (SpecRecurrence).               *)
(***************************************************************************)
Returned == pc = "done"

\* whole days from date a to date b, both at midnight
DaysBetween(a, b) == DayNumber(b) - DayNumber(a)

\* C1: for every frequency value, every preferredWeekday and every anchor
\* date, calculateNextDueDate returns a midnight calendar date strictly later
\* than the anchor normalized to midnight.
C1_StrictlyFuture ==
    Returned =>
        /\ TimeOfDay(nextDueDate) = 0
        /\ nextDueDate > SetHours0(afterDate)

C1_Witness ==
    /\ Returned
    /\ frequency = UnrecognizedFrequency
    /\ TimeOfDay(afterDate) # 0
    /\ DayNumber(nextDueDate) > DayNumber(afterDate)

\* C2: weekly with a preferredWeekday w in 0..6 returns a date on weekday w,
\* 1 to 7 days after the anchor, and exactly 7 days after it when the anchor
\* already falls on weekday w.
C2_WeeklyAlignment ==
    (Returned /\ frequency = "weekly" /\ preferredWeekday \in Weekdays) =>
        /\ GetDay(nextDueDate) = preferredWeekday
        /\ DaysBetween(afterDate, nextDueDate) \in 1 .. 7
        /\ GetDay(afterDate) = preferredWeekday
              => DaysBetween(afterDate, nextDueDate) = 7

C2_Witness ==
    /\ Returned
    /\ frequency = "weekly"
    /\ preferredWeekday \in Weekdays
    /\ GetDay(afterDate) = preferredWeekday
    /\ DaysBetween(afterDate, nextDueDate) = 7

\* month (0..11) and day of the fixed season dates: Mar 20, Jun 21, Sep 22, Dec 21
C3_SeasonMonth ==
    [seasonal_spring |-> 2, seasonal_summer |-> 5, seasonal_fall |-> 8,
     seasonal_winter |-> 11]

C3_SeasonDay ==
    [seasonal_spring |-> 20, seasonal_summer |-> 21, seasonal_fall |-> 22,
     seasonal_winter |-> 21]

\* C3: a seasonal frequency returns the fixed season date of the year after
\* the anchor's year, never the one of the anchor's own year, passed or not.
C3_SeasonalNextYear ==
    (Returned /\ frequency \in SeasonalFrequencies) =>
        /\ GetFullYear(nextDueDate) = GetFullYear(afterDate) + 1
        /\ GetMonth(nextDueDate) = C3_SeasonMonth[frequency]
        /\ GetDate(nextDueDate) = C3_SeasonDay[frequency]
        /\ TimeOfDay(nextDueDate) = 0

\* an anchor in January: winter's date of the same year is still ahead
C3_Witness ==
    /\ Returned
    /\ frequency = "seasonal_winter"
    /\ GetMonth(afterDate) = 0
    /\ GetFullYear(nextDueDate) = GetFullYear(afterDate) + 1

\* C17: for a frequency outside the twelve recognized ones the call returns
\* a date, and that date is midnight of the anchor's day plus exactly one day.
C17_UnknownDefaultsToTomorrow ==
    (Returned /\ frequency \notin RecognizedFrequencies) =>
        /\ nextDueDate # Undefined
        /\ nextDueDate = (DayNumber(afterDate) + 1) * HoursPerDay

\* an unrecognized frequency on an afternoon of a month's last day
C17_Witness ==
    /\ Returned
    /\ frequency = UnrecognizedFrequency
    /\ TimeOfDay(afterDate) = 14
    /\ GetDate(nextDueDate) = 1
    /\ nextDueDate - afterDate = 10

\* the fixed number of days of a fixed-interval frequency
C18_Interval(f) ==
    CASE f = "daily" -> 1
      [] f = "weekly" -> 7
      [] f = "biweekly" -> 14
      [] f = "semi_monthly" -> 15

\* C18: daily, weekly without a preferredWeekday, biweekly and semi_monthly
\* return midnight of the anchor's day plus exactly 1, 7, 14 and 15 days.
C18_FixedIntervals ==
    (/\ Returned
     /\ \/ frequency \in {"daily", "biweekly", "semi_monthly"}
        \/ frequency = "weekly" /\ preferredWeekday = Undefined) =>
        nextDueDate = (DayNumber(afterDate) + C18_Interval(frequency)) * HoursPerDay

\* semi_monthly from February 20 of a leap year: the interval crosses the end
\* of the month
C18_Witness ==
    /\ Returned
    /\ frequency = "semi_monthly"
    /\ GetFullYear(afterDate) = LastYear
    /\ GetMonth(afterDate) = 1
    /\ GetDate(afterDate) = 20
    /\ GetMonth(nextDueDate) = 2
    /\ GetDate(nextDueDate) = 6

(***************************************************************************)
(* Properties of the urgency classifier (SpecTier).                        *)
(***************************************************************************)
\* the window table of the classification rule
C4_Window(f) ==
    CASE f \in {"daily", "weekly"} -> 0
      [] f = "biweekly" -> 3
      [] f = "semi_monthly" -> 5
      [] f = "monthly" -> 7
      [] f = "quarterly" -> 10
      [] f \in SeasonalFrequencies \cup {"semi_annual", "annual"} -> 14

C4_Reference(f, hasDue, daysUntilDue) ==
    IF ~hasDue THEN "get_ahead"
    ELSE IF daysUntilDue < 0 THEN "overdue"
    ELSE IF f \in {"daily", "weekly"} /\ daysUntilDue = 0 THEN "primary"
    ELSE IF daysUntilDue <= C4_Window(f) THEN "urgent"
    ELSE "get_ahead"

\* C4: for each of the twelve frequencies and every daysUntilDue the tier is
\* get_ahead without a due date, overdue below 0, primary for daily/weekly at
\* 0, else urgent up to the frequency's window and get_ahead beyond it.
C4_TierReference ==
    (Returned /\ tierFrequency \in RecognizedFrequencies) =>
        tier = C4_Reference(tierFrequency, dueDate # Null,
                            getDaysUntilDue(dueDate, now, tzOffset))

C4_Witness ==
    /\ Returned
    /\ tierFrequency = "monthly"
    /\ dueDate # Null
    /\ getDaysUntilDue(dueDate, now, tzOffset) = 7
    /\ tier = "urgent"

(***************************************************************************)
(* Properties of the budget allocator (SpecScreen).                        *)
(***************************************************************************)
Range(seq) == {seq[i] : i \in 1 .. Len(seq)}

\* position of the task with the given id in a list, 0 when absent
PositionOf(seq, id) ==
    IF \E i \in 1 .. Len(seq) : seq[i].id = id
    THEN CHOOSE i \in 1 .. Len(seq) : seq[i].id = id
    ELSE 0

\* minutes a task counts for: its estimate, or 10 without one
Minutes(t) == IF t.estimated_time \in {Null, Undefined} THEN 10 ELSE t.estimated_time

RECURSIVE SumMinutes(_)
SumMinutes(seq) ==
    IF seq = <<>> THEN 0 ELSE Minutes(Head(seq)) + SumMinutes(Tail(seq))

\* C5: in the allocator's sorted order every overdue task precedes every
\* task that is not overdue.
C5_OverdueFirst ==
    pc \in {"walk", "done"} =>
        \A i, j \in 1 .. Len(sorted) :
            (getTaskTier(sorted[i]) = "overdue" /\ getTaskTier(sorted[j]) # "overdue")
                => i < j

\* the input lists a task that is not overdue ahead of an overdue one
C5_Witness ==
    /\ pc = "done"
    /\ \E i, j \in 1 .. Len(tasks) :
          /\ i < j
          /\ getTaskTier(tasks[i]) # "overdue"
          /\ getTaskTier(tasks[j]) = "overdue"
          /\ PositionOf(sorted, tasks[j].id) # 0
          /\ PositionOf(sorted, tasks[j].id) < PositionOf(sorted, tasks[i].id)

\* C6: the minutes of the budgeted tasks (10 for a task without estimate) sum
\* to at most dailyTimeBudget, and the returned totalTime is that sum.
C6_BudgetConservation ==
    pc = "done" =>
        /\ SumMinutes(budgeted) <= dailyTimeBudget
        /\ currentTime = SumMinutes(budgeted)

\* a task without estimate was admitted and another task no longer fitted
C6_Witness ==
    /\ pc = "done"
    /\ \E t \in Range(budgeted) : t.estimated_time = Null
    /\ overflow # <<>>
    /\ currentTime > 10

\* C7: budgeted and overflow partition the tasks not completed today: each
\* such task occurs exactly once in the two lists together, and nothing else
\* occurs in them.
C7_Partition ==
    pc = "done" =>
        LET all == budgeted \o overflow
        IN  /\ \A k \in 1 .. Len(tasks) :
                  tasks[k].id \notin completedTaskIds =>
                      Cardinality({i \in 1 .. Len(all) : all[i] = tasks[k]}) = 1
            /\ \A i \in 1 .. Len(all) :
                  /\ all[i] \in Range(tasks)
                  /\ all[i].id \notin completedTaskIds
            /\ Len(all) = Cardinality({k \in 1 .. Len(tasks) :
                                          tasks[k].id \notin completedTaskIds})

\* a completed task is left out while both lists are filled
C7_Witness ==
    /\ pc = "done"
    /\ \E k \in 1 .. Len(tasks) : tasks[k].id \in completedTaskIds
    /\ budgeted # <<>>
    /\ overflow # <<>>

\* the section 8 scenario is on screen with the default budget of 75
C8_ScenarioShown ==
    /\ tasks = TasksOf(ScenarioBudget)
    /\ pendingTaskMap = PendingOf(ScenarioBudget)
    /\ completedTaskIds = {}
    /\ dailyTimeBudget = 75

\* C8: a visited task goes to budgeted iff running total + its minutes <=
\* dailyTimeBudget at that moment, else to overflow; a rejection leaves the
\* running total unchanged; budget 75 with overdue 30, urgent 20, primary 40
\* ends with budgeted = [overdue, urgent] and overflow = [primary].
C8_GreedyWalk ==
    /\ [][(pc = "walk" /\ visited' = visited + 1) =>
            LET t == sorted[visited + 1]
            IN  IF currentTime + Minutes(t) <= dailyTimeBudget
                THEN /\ budgeted' = Append(budgeted, t)
                     /\ overflow' = overflow
                     /\ currentTime' = currentTime + Minutes(t)
                ELSE /\ overflow' = Append(overflow, t)
                     /\ budgeted' = budgeted
                     /\ currentTime' = currentTime]_vars
    /\ []((pc = "done" /\ C8_ScenarioShown) =>
            /\ [i \in 1 .. Len(budgeted) |-> getTaskTier(budgeted[i])]
                   = <<"overdue", "urgent">>
            /\ [i \in 1 .. Len(overflow) |-> getTaskTier(overflow[i])]
                   = <<"primary">>
            /\ currentTime = 50)

\* a task was admitted after a longer task ahead of it had been rejected
C8_Witness ==
    /\ pc = "done"
    /\ \E b \in Range(budgeted), o \in Range(overflow) :
          /\ PositionOf(sorted, o.id) < PositionOf(sorted, b.id)
          /\ Minutes(b) < Minutes(o)

\* C9: overdueInOverflow is the number of overdue tasks in overflow, so the
\* overdue-overflow alert shows exactly when an overdue task is in overflow.
C9_OverdueOverflowCount ==
    pc = "done" =>
        /\ overdueInOverflow =
              Cardinality({i \in 1 .. Len(overflow) :
                              getTaskTier(overflow[i]) = "overdue"})
        /\ overdueOverflowAlert <=>
              \E i \in 1 .. Len(overflow) : getTaskTier(overflow[i]) = "overdue"

\* overflow holds an overdue task next to one that is not overdue
C9_Witness ==
    /\ pc = "done"
    /\ overdueOverflowAlert
    /\ \E i \in 1 .. Len(overflow) : getTaskTier(overflow[i]) # "overdue"

\* C10: with budgetEnabled false every not-completed overdue, urgent or
\* primary task is in budgeted and overflow holds get_ahead tasks only.
C10_DisabledBudgetAdmitsAllDue ==
    (pc = "done" /\ ~budgetEnabled) =>
        /\ \A k \in 1 .. Len(tasks) :
              (/\ tasks[k].id \notin completedTaskIds
               /\ getTaskTier(tasks[k]) \in {"overdue", "urgent", "primary"})
                  => tasks[k] \in Range(budgeted)
        /\ \A i \in 1 .. Len(overflow) : getTaskTier(overflow[i]) = "get_ahead"

\* the rank of a task's tier in the ordering overdue, urgent, primary, get_ahead
C20_TierRank(t) ==
    CASE getTaskTier(t) = "overdue" -> 0
      [] getTaskTier(t) = "urgent" -> 1
      [] getTaskTier(t) = "primary" -> 2
      [] getTaskTier(t) = "get_ahead" -> 3

\* daily 1 .. annual 9, the four seasonal frequencies 7, any other value 10
C20_FrequencyRank(f) ==
    CASE f = "daily" -> 1
      [] f = "weekly" -> 2
      [] f = "biweekly" -> 3
      [] f = "semi_monthly" -> 4
      [] f = "monthly" -> 5
      [] f = "quarterly" -> 6
      [] f \in SeasonalFrequencies -> 7
      [] f = "semi_annual" -> 8
      [] f = "annual" -> 9
      [] OTHER -> 10

C20_Key(t) == <<C20_TierRank(t), C20_FrequencyRank(t.frequency), Minutes(t)>>

\* k <= l in the lexicographic order of triples
C20_LexLeq(k, l) ==
    \/ k[1] < l[1]
    \/ k[1] = l[1] /\ k[2] < l[2]
    \/ k[1] = l[1] /\ k[2] = l[2] /\ k[3] <= l[3]

\* C20: the allocator's sorted list is ascending in the composite key (tier
\* rank, frequency rank, estimated minutes with 10 for a missing estimate):
\* whenever a stands before b, key(a) <= key(b) lexicographically.
C20_SortedByKey ==
    pc # "idle" =>
        \A i, j \in 1 .. Len(sorted) :
            i < j => C20_LexLeq(C20_Key(sorted[i]), C20_Key(sorted[j]))

\* three tasks of one tier came out in the order seasonal (7), annual (9),
\* unrecognized (10), the reverse of their order in the input
C20_Witness ==
    /\ pc = "done"
    /\ Len(sorted) = 3
    /\ sorted[1].frequency = "seasonal_winter"
    /\ sorted[2].frequency = "annual"
    /\ sorted[3].frequency = UnrecognizedFrequency
    /\ tasks[1].frequency = UnrecognizedFrequency
    /\ C20_TierRank(sorted[1]) = C20_TierRank(sorted[3])

(***************************************************************************)
(* Properties of the occurrence lifecycle (SpecLifecycle).                 *)
(***************************************************************************)
\* the handler of frame c was awaiting its write at position "from" and this
\* step moves it to position "to"
Moves(c, from, to) == calls[c].pc = from /\ calls'[c].pc = to

\* frame c has written its completion to the store
CompletionWritten(c) == calls[c].pc \in {"next", "done", "unscheduled"}

NewPending(c) ==
    {i \in (calls[c].rowsBefore + 1) .. Len(taskEvents) :
        /\ taskEvents[i].user_task_id = calls[c].task
        /\ taskEvents[i].status = "pending"}

\* C12: once a completion by handleMarkDone or by the handleToggleStatus of
\* part_003 has finished with both writes, the pending occurrences of the task
\* hold exactly one new row, whose due date is the calendar day of
\* calculateNextDueDate(frequency, today).
C12_RoundTrip ==
    \A c \in 1 .. Len(calls) :
        (/\ calls[c].pc = "done"
         /\ calls[c].screen # "CalendarScreen"
         /\ calls[c].newStatus = "completed"
         /\ HasFrequency(calls[c].frequency)) =>
            /\ Cardinality(NewPending(c)) = 1
            /\ \A i \in NewPending(c) :
                  taskEvents[i].due_date =
                      DayNumber(calculateNextDueDate(calls[c].frequency, now,
                                                     calls[c].weekday))

\* C13: after handleMarkDone's completion write has succeeded, the occurrence
\* of the task that was pending (the earliest one) is no longer pending in
\* the store.
C13_OccurrenceCompleted ==
    \A c \in 1 .. Len(calls) :
        (/\ calls[c].handler = "handleMarkDone"
         /\ CompletionWritten(c)
         /\ calls[c].occurrence # 0) =>
            taskEvents[calls[c].occurrence].status # "pending"

\* C14: the step in which handleMarkDone's completion write fails leaves the
\* task in the local completed set exactly if it was there before the
\* attempt, and creates no occurrence.
C14_RevertRestores ==
    [][\A c \in 1 .. Len(calls) :
          (calls[c].handler = "handleMarkDone" /\ Moves(c, "completion", "failed")) =>
              /\ (calls[c].task \in completedTaskIds') = calls[c].wasCompleted
              /\ taskEvents' = taskEvents]_vars

\* C15: the step in which the next-occurrence insert fails, after the
\* completion was written, changes neither the store nor the local completed
\* set (on the calendar the local item still gets its new status); the call
\* ends with the failure reported only.
C15_CompletionKept ==
    [][\A c \in 1 .. Len(calls) :
          (calls[c].pc = "next" /\ calls'[c].pc # "next") =>
              \/ calls'[c].pc = "done" /\ Len(taskEvents') = Len(taskEvents) + 1
              \/ /\ calls'[c].pc = "unscheduled"
                 /\ taskEvents' = taskEvents
                 /\ completedTaskIds' = completedTaskIds
                 /\ calls[c].handler = "handleToggleStatus" =>
                        calendarTasks'[calls[c].item] = "completed"]_vars

\* a completion whose next-occurrence insert failed: the completed row is in
\* the store and the task is in the local completed set
C15_Witness ==
    \E c \in 1 .. Len(calls) :
        /\ calls[c].handler = "handleMarkDone"
        /\ calls[c].pc = "unscheduled"
        /\ calls[c].task \in completedTaskIds
        /\ \E i \in (calls[c].rowsBefore + 1) .. Len(taskEvents) :
              /\ taskEvents[i].user_task_id = calls[c].task
              /\ taskEvents[i].status = "completed"
        /\ NewPending(c) = {}

\* C16: the store never holds two pending occurrences of one task with the
\* same due date.
C16_NoDuplicatePending ==
    \A i, j \in 1 .. Len(taskEvents) :
        (/\ i < j
         /\ taskEvents[i].status = "pending"
         /\ taskEvents[j].status = "pending"
         /\ taskEvents[i].user_task_id = taskEvents[j].user_task_id) =>
            taskEvents[i].due_date # taskEvents[j].due_date

\* today as a local wall-clock date
C19_Today == DayNumber(now)

\* the tasks that are daily or whose pending occurrence is due today or earlier
C19_Relevant ==
    {i \in 1 .. Len(tasks) :
        \/ tasks[i].frequency = "daily"
        \/ /\ tasks[i].id \in DOMAIN pendingTaskMap
           /\ pendingTaskMap[tasks[i].id] <= C19_Today}

C19_Done == {i \in C19_Relevant : tasks[i].id \in completedTaskIds}

\* p is 100 * n / d rounded to the nearest integer, halves upwards
C19_Rounded(p, n, d) ==
    /\ 2 * p * d <= 200 * n + d
    /\ 2 * (p + 1) * d > 200 * n + d

\* C19: the summary a render computes has total = the number of tasks that are
\* daily or have a pending occurrence due today or earlier, count = the number
\* of those completed today, percent = round(100 * count / total) or 0 when
\* total = 0, with count <= total and 0 <= percent <= 100.
C19_DailyProgress ==
    [][progress' # progress =>
          /\ progress'.total = Cardinality(C19_Relevant)
          /\ progress'.count = Cardinality(C19_Done)
          /\ IF progress'.total = 0 THEN progress'.percent = 0
             ELSE C19_Rounded(progress'.percent, progress'.count, progress'.total)
          /\ progress'.count <= progress'.total
          /\ progress'.percent \in 0 .. 100]_vars

\* ---------------------------------------------------------------------------
\* Properties of the completion paths, the loaded map and the store rows
\* ---------------------------------------------------------------------------

\* the preferred_weekday column of the user task a frame works on
C21_PreferredWeekday(taskId) ==
    LET i == CHOOSE k \in 1 .. Len(tasks) : tasks[k].id = taskId
    IN  tasks[i].preferred_weekday

\* C21: whichever screen completes a weekly task that has a preferred weekday,
\* the pending occurrence created for it is due on that weekday.
C21_WeeklyOnPreferredWeekday ==
    \A c \in 1 .. Len(calls) :
        (/\ calls[c].pc = "done"
         /\ calls[c].screen # "CalendarScreen"
         /\ calls[c].newStatus = "completed"
         /\ calls[c].frequency = "weekly"
         /\ C21_PreferredWeekday(calls[c].task) \in Weekdays) =>
            \A i \in NewPending(c) :
                GetDay(taskEvents[i].due_date * HoursPerDay) =
                    C21_PreferredWeekday(calls[c].task)

\* C28: in every state of the store, a row has a completion timestamp exactly
\* when its status is completed.
C28_CompletedAtIffCompleted ==
    \A i \in 1 .. Len(taskEvents) :
        (taskEvents[i].completed_at # Null) <=>
            (taskEvents[i].status = "completed")

\* the store holds a row inserted as completed by handleMarkDone and a row
\* set to completed by a toggle, both with their timestamp, next to a pending
\* row that has none
C28_Witness ==
    /\ \E c \in 1 .. Len(calls) :
          /\ calls[c].handler = "handleMarkDone"
          /\ CompletionWritten(c)
          /\ \E i \in (calls[c].rowsBefore + 1) .. Len(taskEvents) :
                /\ taskEvents[i].status = "completed"
                /\ taskEvents[i].completed_at = toISOString(now, tzOffset)
    /\ \E c \in 1 .. Len(calls) :
          /\ calls[c].handler = "handleToggleStatus"
          /\ calls[c].newStatus = "completed"
          /\ calls[c].pc = "done"
          /\ taskEvents[calls[c].item].status = "completed"
          /\ taskEvents[calls[c].item].completed_at = toISOString(now, tzOffset)
    /\ \E i \in 1 .. Len(taskEvents) :
          /\ taskEvents[i].status = "pending"
          /\ taskEvents[i].completed_at = Null

\* the rows that frame c of handleMarkDone may have inserted as completed and
\* that are still completed in the store
C30_CompletedBy(c) ==
    {i \in (calls[c].rowsBefore + 1) .. Len(taskEvents) :
        /\ taskEvents[i].user_task_id = calls[c].task
        /\ taskEvents[i].status = "completed"}

\* C30: once every call has settled, a task is in the local completed set
\* whenever the store holds a completed occurrence that one of the
\* handleMarkDone calls for it has written, also when calls overlapped.
C30_SettledSetMatchesStore ==
    InFlight = {} =>
        \A c \in 1 .. Len(calls) :
            (/\ calls[c].handler = "handleMarkDone"
             /\ CompletionWritten(c)
             /\ C30_CompletedBy(c) # {}) =>
                calls[c].task \in completedTaskIds

\* ---------------------------------------------------------------------------
\* Properties of the tiers inside the two lists
\* ---------------------------------------------------------------------------

\* C22: the budgeted list holds only tasks whose tier is overdue, urgent or
\* primary; a get_ahead task is never in it.
C22_BudgetedIsDueOnly ==
    pc = "done" =>
        \A i \in 1 .. Len(budgeted) :
            getTaskTier(budgeted[i]) \in {"overdue", "urgent", "primary"}

\* the not-completed tasks whose tier is overdue, in input order
C23_ActiveOverdue ==
    LET IsOverdue(t) == IsActive(t) /\ getTaskTier(t) = "overdue"
    IN  SelectSeq(tasks, IsOverdue)

\* C23: while an overdue task is still to be visited only overdue tasks have
\* taken budget, and when the walk has ended with an overdue task in overflow
\* the minutes of all not-completed overdue tasks exceed dailyTimeBudget.
C23_OverdueOverflowOnlyOverBudget ==
    /\ (pc = "walk" /\ \E i \in (visited + 1) .. Len(sorted) :
                          getTaskTier(sorted[i]) = "overdue") =>
           \A i \in 1 .. Len(budgeted) : getTaskTier(budgeted[i]) = "overdue"
    /\ (pc = "done" /\ \E i \in 1 .. Len(overflow) :
                          getTaskTier(overflow[i]) = "overdue") =>
           SumMinutes(C23_ActiveOverdue) > dailyTimeBudget

\* one overdue task was admitted, another one no longer fitted, and a task
\* that is not overdue was listed ahead of both
C23_Witness ==
    /\ pc = "done"
    /\ \E i \in 1 .. Len(budgeted) : getTaskTier(budgeted[i]) = "overdue"
    /\ \E i \in 1 .. Len(overflow) : getTaskTier(overflow[i]) = "overdue"
    /\ tasks # <<>>
    /\ IsActive(tasks[1])
    /\ getTaskTier(tasks[1]) # "overdue"

\* ---------------------------------------------------------------------------
\* Properties of the two urgency predicates (SpecTier)
\* ---------------------------------------------------------------------------

\* C29: on the same frequency, due date and clock, isTaskUrgent answers true
\* exactly when getTaskUrgencyTier answers overdue, urgent or primary.
C29_UrgentIffDueTier ==
    (tier # NoTier /\ urgent # NotCalled) =>
        (urgent[1] <=> tier \in {"overdue", "urgent", "primary"})

\* ---------------------------------------------------------------------------
\* Properties of the loaded pending map (SpecFetch)
\* ---------------------------------------------------------------------------

\* the pending rows of a task, wherever they stand in the store
C24_PendingRows(t) ==
    {i \in 1 .. Len(taskEvents) :
        /\ taskEvents[i].user_task_id = t
        /\ taskEvents[i].status = "pending"}

\* the map holds the tasks that have a pending row, each with the minimum of
\* the due dates of its pending rows
C24_IsEarliestMap ==
    /\ DOMAIN pendingTaskMap =
          {tasks[k].id : k \in {j \in 1 .. Len(tasks) :
                                   C24_PendingRows(tasks[j].id) # {}}}
    /\ \A t \in DOMAIN pendingTaskMap :
          /\ \E i \in C24_PendingRows(t) :
                taskEvents[i].due_date = pendingTaskMap[t]
          /\ \A i \in C24_PendingRows(t) :
                pendingTaskMap[t] <= taskEvents[i].due_date

\* a step of fetchData: the sets change while store and calls stay as they are
C24_Loads ==
    /\ InFlight = {}
    /\ taskEvents' = taskEvents
    /\ calls' = calls
    /\ completedTaskIds' # completedTaskIds \/ pendingTaskMap' # pendingTaskMap

\* C24: after loading, pendingTaskMap gives each task the earliest due date
\* among all its pending occurrences, in whatever order the store returns
\* the rows.
C24_EarliestPendingDue ==
    [][C24_Loads => C24_IsEarliestMap']_vars

\* the map was loaded from a store in which a task's later row is due earlier
\* than its first pending row, next to a completed row due earlier still
C24_Witness ==
    /\ pendingTaskMap # <<>>
    /\ \E i, j, k \in 1 .. Len(taskEvents) :
          /\ i < j
          /\ taskEvents[i].user_task_id = taskEvents[j].user_task_id
          /\ taskEvents[k].user_task_id = taskEvents[j].user_task_id
          /\ taskEvents[i].status = "pending"
          /\ taskEvents[j].status = "pending"
          /\ taskEvents[k].status = "completed"
          /\ taskEvents[j].due_date < taskEvents[i].due_date
          /\ taskEvents[k].due_date < taskEvents[j].due_date
          /\ pendingTaskMap[taskEvents[j].user_task_id] = taskEvents[j].due_date

\* ---------------------------------------------------------------------------
\* Properties of the batch generator (SpecOccurrences)
\* ---------------------------------------------------------------------------

\* a step of the while loop: one more date has been pushed
C25_Iterates == pc = "loop" /\ Len(dates') = Len(dates) + 1

\* C25: every iteration of the loop of calculateNextOccurrences moves the
\* cursor strictly forward, for every frequency value, so that the loop ends.
C25_CursorAdvances ==
    [][C25_Iterates => current' > current]_vars

\* the season date of a seasonal frequency in a given year, as a day number
C26_SeasonDay(f, year) ==
    CASE f = "seasonal_spring" -> MakeDay(year, 2, 20)
      [] f = "seasonal_summer" -> MakeDay(year, 5, 21)
      [] f = "seasonal_fall"   -> MakeDay(year, 8, 22)
      [] f = "seasonal_winter" -> MakeDay(year, 11, 21)

\* C26: for a seasonal frequency the first generated date is the season date
\* of the start year when that date is on or after the start day, otherwise
\* the season date of the next year; every further date is the previous one
\* plus exactly one year.
C26_SeasonalDates ==
    (pc = "done" /\ frequency \in SeasonalFrequencies) =>
        LET year == GetFullYear(startDate)
            thisYear == C26_SeasonDay(frequency, year)
        IN  /\ dates # <<>>
            /\ dates[1] = HoursPerDay *
                  (IF thisYear >= DayNumber(startDate) THEN thisYear
                   ELSE C26_SeasonDay(frequency, year + 1))
            /\ \A i \in 1 .. (Len(dates) - 1) :
                  /\ GetFullYear(dates[i + 1]) = GetFullYear(dates[i]) + 1
                  /\ GetMonth(dates[i + 1]) = GetMonth(dates[i])
                  /\ GetDate(dates[i + 1]) = GetDate(dates[i])
                  /\ TimeOfDay(dates[i + 1]) = 0

\* the run started in the afternoon of the season date itself and returned
\* that date and the one a year later
C26_Witness ==
    /\ pc = "done"
    /\ frequency \in SeasonalFrequencies
    /\ TimeOfDay(startDate) = 14
    /\ DayNumber(startDate) = C26_SeasonDay(frequency, GetFullYear(startDate))
    /\ Len(dates) = 2
    /\ DayNumber(dates[1]) = DayNumber(startDate)

\* C27: for each recognized frequency, and weekly with any preferredWeekday,
\* every date pushed after the first is calculateNextDueDate of the date
\* before it and strictly later, and no pushed date lies after startDate plus
\* the window.
C27_BatchAgreesWithSingleStep ==
    [][(C25_Iterates /\ frequency \in RecognizedFrequencies) =>
          LET last == dates'[Len(dates')]
          IN  /\ last <= SetMonth(startDate, GetMonth(startDate) + months)
              /\ dates # <<>> =>
                    /\ last = calculateNextDueDate(frequency, dates[Len(dates)],
                                                   preferredWeekday)
                    /\ last > dates[Len(dates)]]_vars

\* a weekly run that started at midnight of its preferred weekday kept the
\* start day as its first date and returned a year of weekly dates
C27_Witness ==
    /\ pc = "done"
    /\ frequency = "weekly"
    /\ preferredWeekday = GetDay(startDate)
    /\ dates[1] = startDate
    /\ Len(dates) >= 52

====
